---- MODULE Spec2Model ----
(***************************************************************************)
(* Analytics functions of the Cosmic Financial Analysis app (technical     *)
(* indicators, valuation, option Greeks, portfolio statistics, VaR/CVaR)   *)
(* and the portfolio page's weight handling, as a state machine whose      *)
(* steps are calls of those functions on inputs drawn from bounded sets.   *)
(* Floating-point values are modelled by exact rationals plus the IEEE     *)
(* specials (NaN, +inf, -inf); a value q*sqrt(rad) is kept as a surd.      *)
(***************************************************************************)
EXTENDS Integers, Sequences, FiniteSets, TLC

VARIABLES op, arg, ret, rng, session, run, threads

vars == <<op, arg, ret, rng, session, run, threads>>

(* the analytics calls *)
calc == <<op, arg, ret, rng>>

(* the Streamlit session: st.session_state, the last script run, the       *)
(* background threads                                                      *)
web == <<session, run, threads>>

----------------------------------------------------------------------------
(* Bounds of the model *)

MaxLen == 3          \* longest price / returns series
MaxPrice == 3        \* prices are 1..MaxPrice
MaxPeriod == 3       \* rolling-window lengths are 1..MaxPeriod
RngMod == 2          \* number of states of the global random generator

----------------------------------------------------------------------------
(* Exact rational arithmetic: <<n, d>> with d > 0 and gcd(n, d) = 1 *)

Abs(n) == IF n < 0 THEN -n ELSE n

Sign(n) == IF n < 0 THEN -1 ELSE IF n > 0 THEN 1 ELSE 0

RECURSIVE GCD(_, _)
GCD(a, b) == IF b = 0 THEN a ELSE GCD(b, a % b)

Norm(n, d) ==
  LET g == GCD(Abs(n), Abs(d))
      s == IF d < 0 THEN -1 ELSE 1
  IN  <<(s * n) \div g, (s * d) \div g>>

R(n) == <<n, 1>>
Q(n, d) == Norm(n, d)
RAdd(x, y) ==
  LET g == GCD(x[2], y[2])
  IN  Norm(x[1] * (y[2] \div g) + y[1] * (x[2] \div g), (x[2] \div g) * y[2])
RNeg(x) == <<-x[1], x[2]>>
RSub(x, y) == RAdd(x, RNeg(y))
RMul(x, y) ==
  LET g1 == GCD(Abs(x[1]), y[2])
      g2 == GCD(Abs(y[1]), x[2])
  IN  <<(x[1] \div g1) * (y[1] \div g2), (x[2] \div g2) * (y[2] \div g1)>>
RInv(x) == IF x[1] < 0 THEN <<-x[2], -x[1]>> ELSE <<x[2], x[1]>>     \* x # 0
RDiv(x, y) == RMul(x, RInv(y))                                       \* y # 0
RSign(x) == Sign(x[1])

(* the sign of a/b - c/d for a, c >= 0 and b, d > 0, by the integer parts  *)
(* and then the inverted remainders                                        *)
RECURSIVE CmpFrac(_, _, _, _)
CmpFrac(a, b, c, d) ==
  LET qa == a \div b
      qc == c \div d
      ra == a % b
      rc == c % d
  IN  IF qa # qc THEN (IF qa < qc THEN -1 ELSE 1)
      ELSE IF ra = 0 /\ rc = 0 THEN 0
      ELSE IF ra = 0 THEN -1
      ELSE IF rc = 0 THEN 1
      ELSE CmpFrac(d, rc, b, ra)

(* the sign of x - y *)
RCmp(x, y) ==
  IF RSign(x) # RSign(y) THEN (IF RSign(x) < RSign(y) THEN -1 ELSE 1)
  ELSE IF RSign(x) >= 0 THEN CmpFrac(x[1], x[2], y[1], y[2])
  ELSE CmpFrac(-y[1], y[2], -x[1], x[2])

RLt(x, y) == RCmp(x, y) < 0
RLe(x, y) == RCmp(x, y) <= 0
RFloor(x) == x[1] \div x[2]

RECURSIVE RPow(_, _)
RPow(x, n) == IF n = 0 THEN R(1) ELSE RMul(x, RPow(x, n - 1))

RECURSIVE RSum(_)
RSum(s) == IF s = <<>> THEN R(0) ELSE RAdd(Head(s), RSum(Tail(s)))

(* Float values: a finite number or one of the IEEE specials *)
Num(q) == [k |-> "num", q |-> q]
NaN == [k |-> "nan"]
PInf == [k |-> "inf"]
NInf == [k |-> "ninf"]

(* The negative zero: -x for x = 0.0; it compares equal to 0 and prints    *)
(* with a minus sign.                                                      *)
NegZero == [k |-> "num", q |-> <<0, 1>>, neg0 |-> TRUE]

IsNegZero(v) == v.k = "num" /\ "neg0" \in DOMAIN v

(* Python's comparison operators on floats: every comparison with NaN is False *)
FLt(a, b) ==
  CASE a.k = "nan" \/ b.k = "nan" -> FALSE
    [] a.k = "ninf" -> b.k # "ninf"
    [] a.k = "inf" -> FALSE
    [] b.k = "inf" -> TRUE
    [] b.k = "ninf" -> FALSE
    [] OTHER -> RLt(a.q, b.q)

FGt(a, b) == FLt(b, a)

(* IEEE division of two finite non-negative floats, as pandas performs it: *)
(* x/0 is inf for x > 0 and NaN for x = 0; no exception is raised.         *)
FDivNonNeg(x, y) ==
  IF y[1] # 0 THEN Num(RDiv(x, y))
  ELSE IF x[1] > 0 THEN PInf ELSE NaN

----------------------------------------------------------------------------
(* technical_analysis.py *)

(* delta = data['Close'].diff(): undefined at the first position *)
Delta(close, i) == IF i = 1 THEN NaN ELSE Num(R(close[i] - close[i - 1]))

(* delta.where(delta > 0, 0): positions where the test is False, the       *)
(* undefined first position included, are replaced by 0                    *)
GainAt(close, i) ==
  LET d == Delta(close, i) IN IF FGt(d, Num(R(0))) THEN d.q ELSE R(0)

(* -delta.where(delta < 0, 0) *)
LossAt(close, i) ==
  LET d == Delta(close, i) IN IF FLt(d, Num(R(0))) THEN RNeg(d.q) ELSE R(0)

(* .rolling(window=period).mean(): NaN until the window holds period values *)
RollingMean(series, i, period) ==
  IF i < period THEN NaN
  ELSE Num(RDiv(RSum([j \in 1..period |-> series[i - period + j]]), R(period)))

RsiFromRsGuarded(gain, loss) ==
  IF gain.k = "nan" \/ loss.k = "nan" \/ loss.q[1] = 0 THEN NaN
  ELSE Num(RSub(R(100), RDiv(R(100), RAdd(R(1), RDiv(gain.q, loss.q)))))

(* rs = gain / loss; rsi = 100 - (100 / (1 + rs)) *)
RsiFromRs(gain, loss) ==
  IF gain.k = "nan" \/ loss.k = "nan" THEN NaN
  ELSE LET rs == FDivNonNeg(gain.q, loss.q) IN
       CASE rs.k = "nan" -> NaN
         [] rs.k = "inf" -> Num(R(100))
         [] OTHER -> Num(RSub(R(100), RDiv(R(100), RAdd(R(1), rs.q))))

calculate_rsi(close, period) ==
  LET gain == [j \in 1..Len(close) |-> GainAt(close, j)]
      loss == [j \in 1..Len(close) |-> LossAt(close, j)]
  IN  [i \in 1..Len(close) |->
         RsiFromRs(RollingMean(gain, i, period), RollingMean(loss, i, period))]

(* Series.ewm(span=span, adjust=False).mean(): y[0] = x[0] and             *)
(* y[t] = (1 - alpha) * y[t-1] + alpha * x[t] with alpha = 2 / (span + 1); *)
(* pandas leaves y unchanged when x[t] equals y[t-1], which the exact      *)
(* recurrence gives as well.                                               *)
Alpha(span) == Q(2, span + 1)

EwmSeedZero(x) == R(0)

(* adjust=False: the average is seeded with the first observation *)
EwmSeed(x) == x[1]

RECURSIVE Ewm(_, _, _)
Ewm(x, span, i) ==
  IF i = 1 THEN EwmSeed(x)
  ELSE RAdd(RMul(RSub(R(1), Alpha(span)), Ewm(x, span, i - 1)), RMul(Alpha(span), x[i]))

(* exp1 = ewm(span=12), exp2 = ewm(span=26), macd = exp1 - exp2,           *)
(* signal = macd.ewm(span=9)                                               *)
calculate_macd(close) ==
  LET x == [i \in 1..Len(close) |-> R(close[i])]
      macd == [i \in 1..Len(close) |-> RSub(Ewm(x, 12, i), Ewm(x, 26, i))]
  IN  [macd |-> [i \in 1..Len(close) |-> Num(macd[i])],
       signal |-> [i \in 1..Len(close) |-> Num(Ewm(macd, 9, i))]]

generate_recommendation_lax(rsi, macd_current, signal_current) ==
  IF ~FGt(rsi, Num(R(30))) /\ FGt(macd_current, signal_current) THEN "BUY"
  ELSE IF FGt(rsi, Num(R(70))) /\ FLt(macd_current, signal_current) THEN "SELL"
  ELSE "HOLD"

(* The decision of generate_recommendation on the latest RSI, MACD and     *)
(* signal values                                                           *)
generate_recommendation(rsi, macd_current, signal_current) ==
  IF FLt(rsi, Num(R(30))) /\ FGt(macd_current, signal_current) THEN "BUY"
  ELSE IF FGt(rsi, Num(R(70))) /\ FLt(macd_current, signal_current) THEN "SELL"
  ELSE "HOLD"

----------------------------------------------------------------------------
(* equity_analysis.py *)

(* An exception raised inside a function body *)
Raised(exc) == [k |-> "raise", exc |-> exc]

IsRaised(v) == v.k = "raise"

(* Python float division: a zero divisor raises ZeroDivisionError *)
PyDiv(x, y) == IF y[1] = 0 THEN Raised("ZeroDivisionError") ELSE Num(RDiv(x, y))

(* try: ... except: return 0 *)
ExceptReturn0(v) == IF IsRaised(v) THEN Num(R(0)) ELSE v

(* Cash-flow argument: a scalar or a list *)
Scalar(x) == [t |-> "scalar", x |-> x]
List(xs) == [t |-> "list", xs |-> xs]

(* if isinstance(free_cash_flow, (int, float)): free_cash_flow = [free_cash_flow] * 5 *)
ScalarYears == 5

AsCashFlowsSingle(free_cash_flow) ==
  IF free_cash_flow.t = "scalar" THEN <<free_cash_flow.x>> ELSE free_cash_flow.xs

AsCashFlows(free_cash_flow) ==
  IF free_cash_flow.t = "scalar"
  THEN [i \in 1..ScalarYears |-> free_cash_flow.x]
  ELSE free_cash_flow.xs

(* terminal_value = free_cash_flow[-1] * (1 + growth_rate) / (discount_rate - growth_rate) *)
TerminalValue(fcf, discount_rate, growth_rate) ==
  IF fcf = <<>> THEN Raised("IndexError")
  ELSE PyDiv(RMul(fcf[Len(fcf)], RAdd(R(1), growth_rate)),
             RSub(discount_rate, growth_rate))

(* fcf / (1 + discount_rate)**i; (1 + discount_rate)**0 is 1 also for a zero base *)
Discounted(x, discount_rate, i) == PyDiv(x, RPow(RAdd(R(1), discount_rate), i))

(* sum([fcf / (1 + discount_rate)**i for i, fcf in enumerate(free_cash_flow)]) *)
(* enumerate counts from 0: the first cash flow is divided by 1             *)
RECURSIVE SumDiscounted(_, _, _)
SumDiscounted(fcf, discount_rate, n) ==
  IF n = 0 THEN Num(R(0))
  ELSE LET rest == SumDiscounted(fcf, discount_rate, n - 1)
           term == Discounted(fcf[n], discount_rate, n - 1)
       IN  IF IsRaised(rest) THEN rest
           ELSE IF IsRaised(term) THEN term
           ELSE Num(RAdd(rest.q, term.q))

DcfBody(free_cash_flow, discount_rate, growth_rate) ==
  LET fcf == AsCashFlows(free_cash_flow)
      tv == TerminalValue(fcf, discount_rate, growth_rate)
      explicit == SumDiscounted(fcf, discount_rate, Len(fcf))
      tvd == IF IsRaised(tv) THEN tv ELSE Discounted(tv.q, discount_rate, Len(fcf))
  IN  IF IsRaised(tv) THEN tv
      ELSE IF IsRaised(explicit) THEN explicit
      ELSE IF IsRaised(tvd) THEN tvd
      ELSE Num(RAdd(explicit.q, tvd.q))

dcf_valuation(free_cash_flow, discount_rate, growth_rate) ==
  ExceptReturn0(DcfBody(free_cash_flow, discount_rate, growth_rate))

DdmBodyNoGrowth(dividend, discount_rate, growth_rate) ==
  IF RSign(dividend) > 0
  THEN PyDiv(dividend, RSub(discount_rate, growth_rate))
  ELSE Num(R(0))

(* if dividend > 0: return dividend * (1 + growth_rate) / (discount_rate - growth_rate) *)
(* return 0                                                                 *)
DdmBody(dividend, discount_rate, growth_rate) ==
  IF RSign(dividend) > 0
  THEN PyDiv(RMul(dividend, RAdd(R(1), growth_rate)), RSub(discount_rate, growth_rate))
  ELSE Num(R(0))

ddm_valuation(dividend, discount_rate, growth_rate) ==
  ExceptReturn0(DdmBody(dividend, discount_rate, growth_rate))

----------------------------------------------------------------------------
(* derivatives.py *)

(* Each Greek is a product of strictly positive factors (the normal cdf     *)
(* and pdf, exp, sqrt of a positive time) and of the arguments, so its sign *)
(* is determined by the signs of the arguments; a Greek is modelled by its  *)
(* sign in {-1, 0, 1}.  theta is a sum of two terms: when their signs       *)
(* differ its sign depends on the magnitudes and may be any of the three.   *)

ZeroGreeks == [delta |-> 0, gamma |-> 0, theta |-> 0, vega |-> 0, rho |-> 0]

(* d1 = (math.log(stock_price / strike) + ...) / (volatility * math.sqrt(time_to_expiry)) *)
D1Raises(stock_price, strike, time_to_expiry, volatility) ==
  \/ strike = 0                                   \* stock_price / strike
  \/ Sign(stock_price) * Sign(strike) <= 0        \* math.log of a non-positive
  \/ time_to_expiry < 0                           \* math.sqrt of a negative
  \/ volatility = 0 \/ time_to_expiry = 0         \* division by zero

SumSigns(a, b) ==
  IF a = 0 THEN {b} ELSE IF b = 0 \/ a = b THEN {a} ELSE {-1, 0, 1}

GreeksBody(stock_price, strike, time_to_expiry, volatility, risk_free_rate) ==
  {[delta |-> 1,
    gamma |-> Sign(stock_price) * Sign(volatility),
    theta |-> th,
    vega |-> Sign(stock_price),
    rho |-> Sign(strike)] :
      th \in SumSigns(-(Sign(stock_price) * Sign(volatility)),
                      -(Sign(risk_free_rate) * Sign(strike)))}

(* the set of bundles calculate_greeks may return *)
calculate_greeks(stock_price, strike, time_to_expiry, volatility, risk_free_rate) ==
  IF D1Raises(stock_price, strike, time_to_expiry, volatility)
  THEN {ZeroGreeks}                               \* except: return zeros
  ELSE GreeksBody(stock_price, strike, time_to_expiry, volatility, risk_free_rate)

----------------------------------------------------------------------------
(* risk_analysis.py *)

(* A value q * sqrt(rad) with rad a square-free integer > 1 is a surd;     *)
(* with rad = 1 it is the plain number q.                                  *)
SquarePart(h) ==
  CHOOSE s \in 1..h : h % (s * s) = 0 /\ \A t \in (s + 1)..h : h % (t * t) # 0

(* q * np.sqrt(h) for an integer h >= 1 *)
MulSqrt(q, h) ==
  LET s == SquarePart(h)
      f == h \div (s * s)
  IN  IF f = 1 \/ q[1] = 0 THEN Num(RMul(q, R(s)))
      ELSE [k |-> "surd", q |-> RMul(q, R(s)), rad |-> f]

Rad(v) == IF v.k = "surd" THEN v.rad ELSE 1

(* -v *)
VNeg(v) ==
  IF v.k = "surd" THEN [v EXCEPT !.q = RNeg(v.q)]
  ELSE IF IsNegZero(v) THEN Num(R(0))
  ELSE IF v.q[1] = 0 THEN NegZero
  ELSE Num(RNeg(v.q))

(* x <= y for numbers and surds: by sign, then by the squares *)
VLe(x, y) ==
  LET sx == RSign(x.q)
      sy == RSign(y.q)
      x2 == RMul(RMul(x.q, x.q), R(Rad(x)))
      y2 == RMul(RMul(y.q, y.q), R(Rad(y)))
  IN  IF sx # sy THEN sx < sy
      ELSE IF sx >= 0 THEN RLe(x2, y2) ELSE RLe(y2, x2)

VGe(x, y) == VLe(y, x)

Range(f) == {f[i] : i \in DOMAIN f}

(* sorted(a), by insertion *)
RECURSIVE Insert(_, _)
Insert(x, s) ==
  IF s = <<>> THEN <<x>>
  ELSE IF RLe(x, Head(s)) THEN <<x>> \o s
  ELSE <<Head(s)>> \o Insert(x, Tail(s))

RECURSIVE Sorted(_)
Sorted(s) == IF s = <<>> THEN <<>> ELSE Insert(Head(s), Sorted(Tail(s)))

(* np.percentile(a, q * 100) for a fraction q in [0, 1]: linear            *)
(* interpolation between the two order statistics around q * (n - 1)       *)
Percentile(a, q) ==
  LET sa == Sorted(a)
      pos == RMul(q, R(Len(a) - 1))
      lo == RFloor(pos)
      frac == RSub(pos, R(lo))
  IN  IF frac[1] = 0 THEN sa[lo + 1]
      ELSE RAdd(sa[lo + 1], RMul(frac, RSub(sa[lo + 2], sa[lo + 1])))

Mean(a) == RDiv(RSum(a), R(Len(a)))

(* np.std(a) ** 2: the population variance *)
PVariance(a) ==
  LET m == Mean(a)
  IN  RDiv(RSum([i \in 1..Len(a) |-> RMul(RSub(a[i], m), RSub(a[i], m))]), R(Len(a)))

calculate_historical_var_linear(returns, confidence_level, time_horizon) ==
  VNeg(Num(RMul(Percentile(returns, RSub(R(1), confidence_level)), R(time_horizon))))

(* var = np.percentile(returns, (1 - confidence_level) * 100)              *)
(* return -var * np.sqrt(time_horizon)                                     *)
calculate_historical_var(returns, confidence_level, time_horizon) ==
  VNeg(MulSqrt(Percentile(returns, RSub(R(1), confidence_level)), time_horizon))

(* losses = returns[returns <= -var] *)
Losses(returns, var) == SelectSeq(returns, LAMBDA r : VLe(Num(r), VNeg(var)))

(* cvar = np.mean(losses) if len(losses) > 0 else var; return -cvar *)
calculate_cvar(returns, confidence_level, time_horizon) ==
  LET var == calculate_historical_var(returns, confidence_level, time_horizon)
      losses == Losses(returns, var)
      cvar == IF Len(losses) > 0 THEN Num(Mean(losses)) ELSE var
  IN  VNeg(cvar)

(* The global numpy generator: a state in 0..RngMod-1 that every draw      *)
(* advances; the standard normal variate drawn in state s is Variate(s).   *)
RngNext(s) == (s + 1) % RngMod

Variate(s) == (s % 3) - 1

RECURSIVE RngAfter(_, _)
RngAfter(s, n) == IF n = 0 THEN s ELSE RngAfter(RngNext(s), n - 1)

(* np.sum(simulated_returns, axis=1) in units of std, row by row: the sum  *)
(* of the time_horizon variates of simulation i (0-based), drawn row-major *)
RowSum(s, i, time_horizon) ==
  RSum([j \in 1..time_horizon |-> R(Variate(RngAfter(s, i * time_horizon + j - 1)))])

(* a + b * sqrt(rad), rad a non-negative rational *)
Affine(a, b, rad) ==
  IF b[1] = 0 \/ rad[1] = 0 THEN Num(a) ELSE [k |-> "affine", a |-> a, b |-> b, rad |-> rad]

(* simulated_returns = np.random.normal(mean, std, (simulations, time_horizon)) *)
(* each outcome is time_horizon * mean + std * (sum of the row's variates), *)
(* so the percentile of the outcomes is taken on the row sums               *)
calculate_monte_carlo_var(returns, confidence_level, time_horizon, simulations, s) ==
  LET mean == Mean(returns)
      sums == [i \in 1..simulations |-> RowSum(s, i - 1, time_horizon)]
      pct == Percentile(sums, RSub(R(1), confidence_level))
  IN  Affine(RNeg(RMul(R(time_horizon), mean)), RNeg(pct), PVariance(returns))

TradingDays == 252

(* Formatted text.  f"{x:.d%}" and f"{x:.df}" print x (times 100 for %)    *)
(* rounded to d decimals, ties to even, keeping the sign of a negative x   *)
(* also when it rounds to zero; NaN and the infinities print as words.     *)
(* units is the rounded magnitude in units of 10^-d.                       *)
Text(fmt, digits, neg, units) ==
  [k |-> "str", fmt |-> fmt, digits |-> digits, neg |-> neg, units |-> units, word |-> ""]

Word(fmt, digits, w) ==
  [k |-> "str", fmt |-> fmt, digits |-> digits, neg |-> FALSE, units |-> 0, word |-> w]

RECURSIVE Pow10(_)
Pow10(n) == IF n = 0 THEN 1 ELSE 10 * Pow10(n - 1)

(* the nearest integer to a rational x >= 0, ties to even *)
RoundHalfEven(x) ==
  LET f == RFloor(x)
      twice == RSub(RMul(R(2), x), R(2 * f))        \* 2 * (x - f)
  IN  IF RLt(twice, R(1)) THEN f
      ELSE IF RLt(R(1), twice) THEN f + 1
      ELSE IF f % 2 = 0 THEN f ELSE f + 1

(* the largest t in lo..hi with (t/2)^2 <= x, by bisection *)
RECURSIVE HalfSqrtIter(_, _, _)
HalfSqrtIter(x, lo, hi) ==
  IF lo >= hi THEN lo
  ELSE LET mid == (lo + hi + 1) \div 2
       IN  IF RLe(Q(mid * mid, 4), x) THEN HalfSqrtIter(x, mid, hi)
           ELSE HalfSqrtIter(x, lo, mid - 1)

MaxRoot == 46340

(* the nearest integer to sqrt(x) for a rational x >= 0, ties to even *)
RoundSqrt(x) ==
  LET f == RFloor(x)
      t == HalfSqrtIter(x, 0, IF f < MaxRoot THEN 2 * f + 2 ELSE MaxRoot)   \* floor(2 * sqrt(x))
  IN  IF x = Q(t * t, 4) /\ t % 2 = 1
      THEN (IF ((t - 1) \div 2) % 2 = 0 THEN (t - 1) \div 2 ELSE (t + 1) \div 2)
      ELSE (t + 1) \div 2

Scale(fmt, digits) == IF fmt = "%" THEN 100 * Pow10(digits) ELSE Pow10(digits)

(* format of a rational *)
Format(x, fmt, digits) ==
  LET mag == IF x[1] < 0 THEN RNeg(x) ELSE x
  IN  Text(fmt, digits, x[1] < 0, RoundHalfEven(RMul(mag, R(Scale(fmt, digits)))))

(* format of sgn * sqrt(sq), sq a rational >= 0 and sgn in {-1, 0, 1} *)
FormatSqrt(sgn, sq, fmt, digits) ==
  LET sc == Scale(fmt, digits)
  IN  Text(fmt, digits, sgn < 0,
           IF sgn = 0 THEN 0 ELSE RoundSqrt(RMul(RMul(sq, R(sc)), R(sc))))

(* format of a number, a surd or an IEEE special *)
FormatValue(v, fmt, digits) ==
  CASE IsNegZero(v) -> Text(fmt, digits, TRUE, 0)
    [] v.k = "num" -> Format(v.q, fmt, digits)
    [] v.k = "surd" -> FormatSqrt(RSign(v.q), RMul(RMul(v.q, v.q), R(v.rad)), fmt, digits)
    [] v.k = "nan" -> Word(fmt, digits, "nan")
    [] v.k = "inf" -> Word(fmt, digits, "inf")
    [] v.k = "ninf" -> Word(fmt, digits, "-inf")

(* The scenarios used when stress_scenarios is None *)
DefaultScenarios ==
  [l \in {"Market Crash (-30%)", "Severe Recession (-20%)",
          "Mild Recession (-10%)", "Bull Market (+15%)"} |->
     CASE l = "Market Crash (-30%)" -> Q(-30, 100)
       [] l = "Severe Recession (-20%)" -> Q(-20, 100)
       [] l = "Mild Recession (-10%)" -> Q(-10, 100)
       [] l = "Bull Market (+15%)" -> Q(15, 100)]

NoScenarios == [k |-> "None"]
Scenarios(m) == [k |-> "dict", m |-> m]

DefaultConfidence == Q(95, 100)

perform_stress_testing_unshifted(returns, stress_scenarios) ==
  LET scenarios == IF stress_scenarios.k = "None" THEN DefaultScenarios
                   ELSE stress_scenarios.m
  IN  [scenario \in DOMAIN scenarios |->
        LET shock == scenarios[scenario]
            var_95 == calculate_historical_var(returns, DefaultConfidence, 1)
        IN  [Shock |-> Format(shock, "%", 1), VaR95 |-> FormatValue(var_95, "%", 2)]]

perform_stress_testing(returns, stress_scenarios) ==
  LET scenarios == IF stress_scenarios.k = "None" THEN DefaultScenarios
                   ELSE stress_scenarios.m
  IN  [scenario \in DOMAIN scenarios |->
        LET shock == scenarios[scenario]
            stressed_return == [i \in 1..Len(returns) |-> RAdd(returns[i], shock)]
            var_95 == calculate_historical_var(stressed_return, DefaultConfidence, 1)
        IN  [Shock |-> Format(shock, "%", 1), VaR95 |-> FormatValue(var_95, "%", 2)]]

Min(a) == CHOOSE x \in Range(a) : \A y \in Range(a) : RLe(x, y)

RECURSIVE LcmDen(_)
LcmDen(a) ==
  IF a = <<>> THEN 1
  ELSE LET l == LcmDen(Tail(a)) IN (Head(a)[2] \div GCD(Head(a)[2], l)) * l

(* The central moment of order p.  Skewness and kurtosis are ratios of     *)
(* moments that do not depend on the unit of the sample, so the moments    *)
(* are taken in the unit that makes every deviation an integer.            *)
Moment(a, p) ==
  LET m == Mean(a)
      unit == R(Len(a) * LcmDen(a))
  IN  RDiv(RSum([i \in 1..Len(a) |-> RPow(RMul(RSub(a[i], m), unit), p)]), R(Len(a)))

(* np.mean(returns) / np.std(returns) * np.sqrt(252), formatted .2f: the   *)
(* numpy division gives inf, -inf or NaN for a zero deviation              *)
FormatSharpe(returns) ==
  LET m == Mean(returns)
      m2 == PVariance(returns)
  IN  IF m2[1] = 0
      THEN Word("f", 2, IF m[1] > 0 THEN "inf" ELSE IF m[1] < 0 THEN "-inf" ELSE "nan")
      ELSE FormatSqrt(RSign(m), RMul(RDiv(RMul(m, m), m2), R(TradingDays)), "f", 2)

(* stats.skew: m3 / m2**1.5, NaN for a constant sample *)
FormatSkew(returns) ==
  LET m2 == Moment(returns, 2)
      m3 == Moment(returns, 3)
      r == RDiv(m3, m2)
  IN  IF m2[1] = 0 THEN Word("f", 2, "nan")
      ELSE FormatSqrt(RSign(m3), RDiv(RMul(r, r), m2), "f", 2)

(* stats.kurtosis: m4 / m2**2 - 3, NaN for a constant sample *)
FormatKurtosis(returns) ==
  LET m2 == Moment(returns, 2)
      r == RDiv(Moment(returns, 4), RMul(m2, m2))
  IN  IF m2[1] = 0 THEN Word("f", 2, "nan")
      ELSE Format(RSub(r, R(3)), "f", 2)

(* the largest fall of the cumulated returns from a running peak *)
RunningDrawdown(returns) ==
  LET n == Len(returns)
      fall(i, j) == RSum([k \in 1..(j - i) |-> returns[i + k]])
      falls == UNION {{fall(i, j) : j \in i..n} : i \in 0..n}
      worst == CHOOSE x \in falls : \A y \in falls : RLe(x, y)
  IN  Format(worst, "%", 2)

(* 'Maximum Drawdown': f"{np.min(returns):.2%}" *)
MaximumDrawdown(returns) == Format(Min(returns), "%", 2)

calculate_risk_factors(returns) ==
  [AnnualizedVolatility |-> FormatSqrt(1, RMul(PVariance(returns), R(TradingDays)), "%", 2),
   SharpeRatio |-> FormatSharpe(returns),
   MaximumDrawdown |-> MaximumDrawdown(returns),
   Skewness |-> FormatSkew(returns),
   Kurtosis |-> FormatKurtosis(returns),
   VaR95 |-> FormatValue(calculate_historical_var(returns, DefaultConfidence, 1), "%", 2),
   CVaR95 |-> FormatValue(calculate_cvar(returns, DefaultConfidence, 1), "%", 2)]

----------------------------------------------------------------------------
(* portfolio_analysis.py *)

(* risk_free_rate = 0.065 *)
risk_free_rate == Q(65, 1000)

(* A returns matrix is a sequence of columns, each a sequence of the same  *)
(* number of rows.                                                         *)
Rows(returns) == Len(returns[1])

(* returns.cov(): the sample covariance (ddof = 1), NaN with fewer than    *)
(* two rows                                                                *)
Cov(x, y) ==
  IF Len(x) < 2 THEN NaN
  ELSE LET mx == Mean(x)
           my == Mean(y)
       IN  Num(RDiv(RSum([t \in 1..Len(x) |-> RMul(RSub(x[t], mx), RSub(y[t], my))]),
                    R(Len(x) - 1)))

(* np.sum(returns.mean() * weights) * 252 *)
PortfolioReturn(returns, weights) ==
  IF Rows(returns) = 0 THEN NaN
  ELSE Num(RMul(RSum([i \in 1..Len(returns) |-> RMul(Mean(returns[i]), weights[i])]),
                R(TradingDays)))

(* np.dot(weights.T, np.dot(returns.cov() * 252, weights)) *)
PortfolioVariance(returns, weights) ==
  IF Rows(returns) < 2 THEN NaN
  ELSE LET n == Len(returns)
           inner == [i \in 1..n |->
                      RSum([j \in 1..n |->
                        RMul(RMul(Cov(returns[i], returns[j]).q, R(TradingDays)),
                             weights[j])])]
       IN  Num(RSum([i \in 1..n |-> RMul(weights[i], inner[i])]))

(* np.sqrt of a non-negative number *)
Sqrt(v) ==
  IF v.k = "nan" THEN NaN
  ELSE IF v.q[1] = 0 THEN Num(R(0))
  ELSE [k |-> "sqrt", of |-> v.q]

(* numpy float division x / y, y a square root: a zero divisor yields inf, *)
(* -inf or NaN (with a warning), never an exception                        *)
NpDivide(x, y) ==
  IF x.k = "nan" \/ y.k = "nan" THEN NaN
  ELSE IF y.k = "num" /\ y.q[1] = 0
       THEN (IF RSign(x.q) > 0 THEN PInf ELSE IF RSign(x.q) < 0 THEN NInf ELSE NaN)
  ELSE [k |-> "ratio", num |-> x.q, den |-> y]

calculate_portfolio_metrics(returns, weights) ==
  LET portfolio_return == PortfolioReturn(returns, weights)
      portfolio_volatility == Sqrt(PortfolioVariance(returns, weights))
      excess == IF portfolio_return.k = "nan" THEN NaN
                ELSE Num(RSub(portfolio_return.q, risk_free_rate))
  IN  [k |-> "metrics",
       expected_return |-> portfolio_return,
       volatility |-> portfolio_volatility,
       sharpe_ratio |-> NpDivide(excess, portfolio_volatility)]

(* returns[column].dropna(): the values of the cells that are not NaN *)
DropNa(column) ==
  LET kept == SelectSeq(column, LAMBDA c : c.k # "nan")
  IN  [t \in 1..Len(kept) |-> kept[t].q]

VolatilityPositiveAlways(ann_vol) == TRUE

(* ann_vol > 0: False for 0 and for NaN *)
VolatilityPositive(ann_vol) == ann_vol.k = "sqrt"

(* calculate_individual_metrics (portfolio_analysis.py:46-59).  returns    *)
(* maps a column name to its cells; Series.std() is the sample deviation,  *)
(* NaN for a single value.                                                 *)
calculate_individual_metrics(returns) ==
  LET stock_returns(column) == DropNa(returns[column])
      entry(column) ==
        LET ann_return == Num(RMul(Mean(stock_returns(column)), R(TradingDays)))
            variance == Cov(stock_returns(column), stock_returns(column))
            ann_vol == Sqrt(IF variance.k = "nan" THEN NaN
                            ELSE Num(RMul(variance.q, R(TradingDays))))
        IN  [return |-> ann_return,
             volatility |-> ann_vol,
             sharpe_ratio |->
               IF VolatilityPositive(ann_vol)
               THEN NpDivide(Num(RSub(ann_return.q, risk_free_rate)), ann_vol)
               ELSE Num(R(0))]
  IN  [column \in {c \in DOMAIN returns : Len(stock_returns(c)) > 0} |-> entry(column)]

(* fetch_portfolio_data: the columns of the frame are the distinct symbols *)
(* in order of first entry (the keys of the dict)                          *)
RECURSIVE Distinct(_)
Distinct(companies) ==
  IF companies = <<>> THEN <<>>
  ELSE LET front == Distinct(SubSeq(companies, 1, Len(companies) - 1))
           last == companies[Len(companies)]
       IN  IF \E i \in 1..Len(front) : front[i] = last THEN front
           ELSE Append(front, last)

(* weights = [w/total_weight for w in weights] if the total is positive *)
Normalize(weights) ==
  LET total == RSum(weights)
  IN  IF RSign(total) > 0 THEN [i \in 1..Len(weights) |-> RDiv(weights[i], total)]
      ELSE weights

(* The run of display() in which "Analyze Portfolio" is clicked.  status   *)
(* tells, per symbol, what the download gave: "ok" (a Close series with    *)
(* values), "allnan" (rows without a value), "empty" (no rows) or "error"  *)
(* (an exception: the column is None).                                     *)
display_portfolio(companies, sliders, status) ==
  LET weights == Normalize(sliders)
      columns == Distinct(companies)
      hasRows == \E c \in Range(columns) : status[c] \in {"ok", "allnan"}
      valid_companies == SelectSeq(columns, LAMBDA c : status[c] = "ok")
      validIdx == SelectSeq([i \in 1..Len(companies) |-> i],
                            LAMBDA i : status[companies[i]] = "ok")
      valid_weights == Normalize([j \in 1..Len(validIdx) |-> weights[validIdx[j]]])
      final_companies == valid_companies
      final_weights == [j \in 1..Len(final_companies) |-> valid_weights[j]]
  IN  IF \A c \in Range(columns) : status[c] = "error"
      THEN Raised("ValueError")                   \* pd.DataFrame of scalars only
      ELSE IF ~hasRows THEN [k |-> "unable_to_fetch"]
      ELSE IF valid_companies = <<>> THEN [k |-> "no_valid_data"]
      ELSE [k |-> "analyzed", columns |-> final_companies, weights |-> final_weights]

(* generate_portfolio_report, the holdings table (portfolio_analysis.py    *)
(* 114-126): one row per position of company_names whose company has       *)
(* metrics, with the weight found at that position.                        *)
generate_portfolio_report(company_names, weights, individual_metrics) ==
  LET rows == SelectSeq([i \in 1..Len(company_names) |-> i],
                        LAMBDA i : company_names[i] \in individual_metrics)
  IN  [j \in 1..Len(rows) |->
         [company |-> company_names[rows[j]], weight |-> Format(weights[rows[j]], "%", 1)]]

(* The call at portfolio_analysis.py:307-310, in a run of display() that   *)
(* has analyzed the portfolio: it passes the companies and weights of the  *)
(* input form and the metrics of the columns that were analyzed.           *)
PortfolioReport(companies, sliders, status) ==
  LET weights == Normalize(sliders)
      individual_metrics == Range(display_portfolio(companies, sliders, status).columns)
  IN  generate_portfolio_report(companies, weights, individual_metrics)

----------------------------------------------------------------------------
(* main.py and data_fetcher.py *)

(* A value returned by a call *)
Returned(v) == [k |-> "return", v |-> v]

None == "None"

IsLastAttemptNever(attempt, max_retries) == FALSE

(* if attempt == max_retries - 1: raise e *)
IsLastAttempt(attempt, max_retries) == attempt = max_retries - 1

(* retry_api_call from the iteration attempt of its loop on.  outcomes[i]  *)
(* is what the i-th call of func does: a returned value or a raised        *)
(* exception.  sleeps lists the arguments of time.sleep so far.            *)
RECURSIVE RetryFrom(_, _, _, _, _)
RetryFrom(outcomes, max_retries, delay, attempt, sleeps) ==
  IF attempt >= max_retries
  THEN [result |-> Returned(None), calls |-> attempt, sleeps |-> sleeps]
  ELSE LET o == outcomes[attempt + 1]
       IN  IF ~IsRaised(o)
           THEN [result |-> o, calls |-> attempt + 1, sleeps |-> sleeps]
           ELSE IF IsLastAttempt(attempt, max_retries)
           THEN [result |-> o, calls |-> attempt + 1, sleeps |-> sleeps]
           ELSE RetryFrom(outcomes, max_retries, delay, attempt + 1,
                          Append(sleeps, delay * (2 ^ attempt)))

retry_api_call(outcomes, max_retries, delay) ==
  RetryFrom(outcomes, max_retries, delay, 0, <<>>)

(* def retry_api_call(func, max_retries=3, delay=1) *)
DefaultMaxRetries == 3
DefaultDelay == 1

(* fetch_asset_data -> fetch_stock_data and its siblings: the frame that   *)
(* yf.download returns, or None when yf.download raises (the exception is  *)
(* reported with st.error and swallowed).  st.cache_data hands the value   *)
(* through.                                                                *)
fetch_asset_data(download) ==
  IF download = "error" THEN Returned(None) ELSE Returned(download)

(* The fetch of the Search page: download[i] is what the i-th run of       *)
(* yf.download does ("data": a frame with rows, "empty": a frame without   *)
(* rows, "error": an exception).                                           *)
search_page(downloads) ==
  LET r == retry_api_call([i \in 1..DefaultMaxRetries |-> fetch_asset_data(downloads[i])],
                          DefaultMaxRetries, DefaultDelay)
  IN  [attempts |-> r.calls,
       sleeps |-> r.sleeps,
       shown |-> IF IsRaised(r.result) THEN "handle_api_error"
                 ELSE IF r.result.v \in {None, "empty"} THEN "unable_to_fetch"
                 ELSE "metrics"]

(* The pages of main(): the sidebar sets st.session_state.selected_module  *)
(* and the page of that name is rendered in the same run.                  *)
Modules ==
  {"Home", "Data Fetching", "Equity Analysis", "Derivatives/Forex/Crypto", "News Feed",
   "Portfolio Analysis", "Risk Analysis", "Reports", "Search", "Favorites"}

(* the pages whose analysis button has a report button nested under it *)
AnalysisPages == {"Risk Analysis", "Portfolio Analysis", "Equity Analysis"}

(* A widget of the page, by kind and subject; a click on it (an entry, for *)
(* the text input) starts the next run of the script.                      *)
Widget(w, x) == [w |-> w, x |-> x]

NoClick == Widget("none", "")

(* st.session_state: keys holds the names that have been set *)
FreshSession ==
  [keys |-> {}, selected_module |-> "Home", favorites |-> {},
   lazy_loaded_data |-> [id |-> 0, entries |-> {}], error_log |-> <<>>]

Has(s, key) == key \in s.keys

SetModule(s, m) == [s EXCEPT !.keys = @ \cup {"selected_module"}, !.selected_module = m]

SetFavorites(s, f) == [s EXCEPT !.keys = @ \cup {"favorites"}, !.favorites = f]

(* What one pass of the script leaves: the page it rendered, the session   *)
(* state, "ok" or the exception that ended the pass, the widgets rendered, *)
(* the search box's content, the page whose analysis results are shown,    *)
(* the report generators called, and whether it ended in st.rerun().       *)
Pass(page, s, outcome, widgets, query, analysis, calls, rerun) ==
  [page |-> page, session |-> s, outcome |-> outcome, widgets |-> widgets,
   query |-> query, analysis |-> analysis, calls |-> calls, rerun |-> rerun]

(* the navigation buttons of the sidebar *)
NavWidgets == {Widget("nav", m) : m \in Modules}

(* if st.button(...): st.session_state.selected_module = module *)
Sidebar(s, click) == IF click.w = "nav" THEN SetModule(s, click.x) ELSE s

(* data_fetcher.py:24-33.  download is what yf.download('USDINR=X') does:  *)
(* it raises, or it returns the Close column of the table it gives.  When  *)
(* the table has no rows neither return statement is reached and the       *)
(* function ends with Python's None.                                       *)
PyNone == [k |-> "none"]

FallbackRate == 83

get_usd_inr_rate(download) ==
  IF IsRaised(download) THEN Num(R(FallbackRate))
  ELSE IF download.v # <<>> THEN Num(download.v[Len(download.v)])
  ELSE PyNone

(* data_fetcher.py:6-22: the prices times the rate; an exception of the    *)
(* price download is not caught, and a product with None is a TypeError.   *)
fetch_historical_data(download, rate_download) ==
  LET usd_inr_rate == get_usd_inr_rate(rate_download)
  IN  IF IsRaised(download) THEN [rate |-> PyNone, data |-> download]
      ELSE [rate |-> usd_inr_rate,
            data |-> IF usd_inr_rate.k = "none" THEN Raised("TypeError")
                     ELSE Returned([i \in 1..Len(download.v) |->
                                      RMul(download.v[i], usd_inr_rate.q)])]

----------------------------------------------------------------------------
(* news_feed.py.  A title is the sequence of its characters.               *)

(* str.lower() on one character *)
LowerChar(c) ==
  CASE c = "A" -> "a" [] c = "B" -> "b" [] c = "C" -> "c" [] OTHER -> c

Lower(t) == [i \in 1..Len(t) |-> LowerChar(t[i])]

RECURSIVE LStrip(_)
LStrip(t) == IF t # <<>> /\ Head(t) = " " THEN LStrip(Tail(t)) ELSE t

RECURSIVE RStrip(_)
RStrip(t) ==
  IF t # <<>> /\ t[Len(t)] = " " THEN RStrip(SubSeq(t, 1, Len(t) - 1)) ELSE t

(* str.strip() *)
Strip(t) == RStrip(LStrip(t))

(* article.get('title', '').lower().strip() *)
TitleKey(article) == Strip(Lower(article.title))

NeedsMoreArticlesAlways(articles) == TRUE

(* if len(articles) < 10 *)
NeedsMoreArticles(articles) == Len(articles) < 10

(* lines 108-116: the loop over articles from position k on *)
RECURSIVE UniqueFrom(_, _, _, _)
UniqueFrom(articles, k, seen_titles, unique_articles) ==
  IF k > Len(articles) THEN unique_articles
  ELSE LET title == TitleKey(articles[k])
       IN  IF title # <<>> /\ title \notin seen_titles
           THEN UniqueFrom(articles, k + 1, seen_titles \cup {title},
                           Append(unique_articles, articles[k]))
           ELSE UniqueFrom(articles, k + 1, seen_titles, unique_articles)

(* the slice s[:n] *)
Take(s, n) == SubSeq(s, 1, IF Len(s) < n THEN Len(s) ELSE n)

(* fetch_news_financial (74-118).  newsapi holds the articles appended in  *)
(* the try block; yahoo and google are what fetch_news_yahoo_finance and   *)
(* fetch_news_google_news return when they are called.  consulted lists    *)
(* the calls made.                                                         *)
fetch_news_financial(newsapi, yahoo, google) ==
  LET askYahoo == NeedsMoreArticles(newsapi)
      a1 == IF askYahoo THEN newsapi \o yahoo ELSE newsapi
      askGoogle == NeedsMoreArticles(a1)
      a2 == IF askGoogle THEN a1 \o google ELSE a1
      unique_articles == UniqueFrom(a2, 1, {}, <<>>)
  IN  [articles |-> Take(unique_articles, 20),
       consulted |-> (IF askYahoo THEN {"Yahoo Finance"} ELSE {}) \cup
                     (IF askGoogle THEN {"Google News"} ELSE {})]

----------------------------------------------------------------------------
(* Inputs *)

SeqsUpTo(S, n) == UNION {[1..m -> S] : m \in 1..n}

PriceSeries == SeqsUpTo(1..MaxPrice, MaxLen)

(* Close series handed to calculate_macd *)
MaxMacdLen == 2

MacdSeries == SeqsUpTo(1..MaxPrice, MaxMacdLen)

(* Latest RSI values: the thresholds, their neighbours, the extremes, NaN *)
RsiInputs == {NaN} \cup {Num(R(v)) : v \in {0, 29, 30, 31, 50, 69, 70, 71, 100}}

(* Latest MACD / signal values *)
MacdInputs == {NaN} \cup {Num(R(v)) : v \in -1..1}

(* Discount and growth rates *)
Rates == {R(-1), R(0), Q(1, 4), Q(1, 2)}

(* Cash flows and dividends *)
Amounts == {R(v) : v \in -1..2}

CashFlowInputs ==
  {Scalar(x) : x \in Amounts} \cup
  {List(xs) : xs \in {<<>>} \cup SeqsUpTo(Amounts, MaxLen)}

(* Option parameters, by sign *)
OptionInputs == -1..1

(* Returns samples *)
ReturnValues == {Q(-2, 100), R(0), Q(1, 100), Q(3, 100)}

ReturnSeries == SeqsUpTo(ReturnValues, MaxLen)

ConfidenceLevels == {Q(1, 2), Q(19, 20)}

MaxHorizon == 4

MaxSims == 2

(* Samples for the simulation: a constant one and two spread ones *)
SimSeries == {<<Q(1, 100)>>, <<Q(-1, 100), Q(1, 100)>>, <<R(0), Q(2, 100)>>}

(* Returns matrices and weight vectors for calculate_portfolio_metrics *)
MaxCols == 2

MaxRows == 2

MatrixValues == {Q(-1, 100), Q(1, 100)}

Matrices ==
  UNION {[1..n -> [1..t -> MatrixValues]] : n \in 1..MaxCols, t \in 0..MaxRows}

WeightValues == {R(0), Q(1, 2)}

(* Returns frames handed to calculate_individual_metrics: columns of one   *)
(* length whose cells are returns or NaN                                   *)
Tickers == {"A", "B", "C"}

Cells == {NaN, Num(R(0)), Num(Q(1, 100))}

Frames == UNION {[Tickers -> [1..t -> Cells]] : t \in 0..MaxRows}

(* The portfolio page: symbols, slider positions, download results *)
Symbols == {"A", "B"}

MaxCompanies == 3

SliderValues == {R(0), Q(1, 2)}

DownloadStatus == {"ok", "allnan", "empty", "error"}

(* Scenario mappings handed to perform_stress_testing *)
ScenarioInputs ==
  {NoScenarios,
   Scenarios([l \in {} |-> R(0)]),
   Scenarios([l \in {"Crash"} |-> Q(-5, 100)]),
   Scenarios([l \in {"Crash", "Rally"} |-> IF l = "Crash" THEN Q(-5, 100) ELSE Q(1, 200)])}

(* What a call of the function handed to retry_api_call may do *)
FuncOutcomes == {Returned("data"), Returned(None), Raised("E1"), Raised("E2")}

MaxThreads == 2
MaxRetries == 3

Delays == 0..2

(* What a run of yf.download may do *)
DownloadOutcomes == {"data", "empty", "error"}

(* Results of the news sources.  Title(i) is the i-th title over a, b, c;  *)
(* Run(n, start, variant, source) is a result of n articles with the       *)
(* titles after start, either as they are ("plain") or each one twice, the *)
(* second time in capitals and padded with blanks ("mixed").               *)
MaxArticles == 22

Letters == <<"a", "b", "c">>

RECURSIVE Title(_)
Title(i) ==
  IF i = 0 THEN <<>> ELSE Append(Title((i - 1) \div 3), Letters[((i - 1) % 3) + 1])

UpperChar(c) ==
  CASE c = "a" -> "A" [] c = "b" -> "B" [] c = "c" -> "C" [] OTHER -> c

Shouted(t) == <<" ">> \o [i \in 1..Len(t) |-> UpperChar(t[i])] \o <<" ">>

Article(title, source) == [title |-> title, source |-> source]

Run(n, start, variant, source) ==
  [j \in 1..n |->
     IF variant = "plain" THEN Article(Title(start + j), source)
     ELSE IF j % 2 = 1 THEN Article(Title(start + (j + 1) \div 2), source)
     ELSE Article(Shouted(Title(start + j \div 2)), source)]

OddTitles == {<<>>, <<" ">>, <<"a">>, <<"A", " ">>}

NewsApiResults ==
  {Run(n, 0, v, "NewsAPI") : n \in {0, 1, 9, 10, MaxArticles}, v \in {"plain", "mixed"}}
  \cup {[j \in DOMAIN ts |-> Article(ts[j], "NewsAPI")] : ts \in SeqsUpTo(OddTitles, 2)}

YahooResults ==
  {Run(n, start, v, "Yahoo Finance") :
     n \in {0, 3, MaxArticles}, start \in {0, 5}, v \in {"plain", "mixed"}}

GoogleResults ==
  {Run(n, start, v, "Google News") :
     n \in {0, 12}, start \in {0, 20}, v \in {"plain"}}

(* what yf.download gives for a symbol and for USDINR=X: an exception or a *)
(* Close column, possibly without rows                                     *)
CloseColumns == {<<>>} \cup SeqsUpTo({R(1), R(2)}, 2)

PriceDownloads == {Raised("Exception")} \cup {Returned(c) : c \in CloseColumns}

RateDownloads ==
  {Raised("Exception")} \cup {Returned(c) : c \in {<<>>} \cup SeqsUpTo({R(82), R(84)}, 2)}

----------------------------------------------------------------------------
(* main.py: one run of the script.  click is the widget whose interaction  *)
(* started the run: st.button returns True for that button only.           *)

(* The Search page (main.py:798-878).  query is the content the search box *)
(* kept from the previous run.  The basic-data fetch below the buttons     *)
(* (search_page above) leaves the session state alone.                     *)
RenderSearch(s, click, query) ==
  LET s1 == IF Has(s, "favorites") THEN s ELSE SetFavorites(s, {})
      search_query == IF click.w = "search_query" THEN click.x ELSE query
      box == {Widget("search_query", x) : x \in Symbols \cup {""}}
      buttons == {Widget("fav_toggle", search_query), Widget("search_analyze", search_query)}
      is_favorite == search_query \in s1.favorites
      s2 == IF click = Widget("fav_toggle", search_query)
            THEN SetFavorites(s1, IF is_favorite THEN s1.favorites \ {search_query}
                                  ELSE s1.favorites \cup {search_query})
            ELSE s1
  IN  IF search_query = ""
      THEN Pass("Search", s1, "ok", box, search_query, "none", {}, FALSE)
      ELSE IF click = Widget("search_analyze", search_query)
      THEN Pass("Search", SetModule(s2, "Data Fetching"), "ok", box, search_query,
                "none", {}, TRUE)
      ELSE Pass("Search", s2, "ok", box \cup buttons, search_query, "none", {}, FALSE)

(* The Favorites page (main.py:970-1033).  priced holds the symbols whose  *)
(* quick fetch gives a price: for the others the card fails inside the try *)
(* and their buttons are not rendered.                                     *)
RenderFavorites(s, click, priced) ==
  IF ~Has(s, "favorites")
  THEN Pass("Favorites", s, "AttributeError", {}, "", "none", {}, FALSE)
  ELSE IF s.favorites = {}
  THEN IF click.w = "quick_add"
       THEN Pass("Favorites", SetFavorites(s, {click.x}), "ok", {}, "", "none", {}, TRUE)
       ELSE Pass("Favorites", s, "ok", {Widget("quick_add", x) : x \in Symbols}, "",
                 "none", {}, FALSE)
  ELSE LET shown == s.favorites \cap priced
           cards == {Widget("fav_analyze", x) : x \in shown} \cup
                    {Widget("fav_remove", x) : x \in shown}
       IN  IF click.w = "fav_analyze" /\ click.x \in shown
           THEN Pass("Favorites", SetModule(s, "Data Fetching"), "ok", {}, "", "none", {}, TRUE)
           ELSE IF click.w = "fav_remove" /\ click.x \in shown
           THEN Pass("Favorites", SetFavorites(s, s.favorites \ {click.x}), "ok", {}, "",
                     "none", {}, TRUE)
           ELSE IF click.w = "clear_favorites"
           THEN Pass("Favorites", SetFavorites(s, {}), "ok", {}, "", "none", {}, TRUE)
           ELSE Pass("Favorites", s, "ok", cards \cup {Widget("clear_favorites", "")}, "",
                     "none", {}, FALSE)

(* display() of risk_analysis (272-332), portfolio_analysis (239-318) and  *)
(* equity_analysis (158-429): the report button and the call of the report *)
(* generator are inside the block of the analysis button.  fetched tells   *)
(* whether the analysis gets its data.                                     *)
RenderAnalysis(m, s, click, fetched) ==
  IF click = Widget("analyze", m)
  THEN IF fetched
       THEN Pass(m, s, "ok", {Widget("analyze", m), Widget("report", m)}, "", m,
                 IF click = Widget("report", m) THEN {m} ELSE {}, FALSE)
       ELSE Pass(m, s, "ok", {Widget("analyze", m)}, "", "none", {}, FALSE)
  ELSE Pass(m, s, "ok", {Widget("analyze", m)}, "", "none", {}, FALSE)

(* reports.py.  A Python str value; the format codes f and % of an        *)
(* f-string are not defined for it.                                         *)
Str(t) == [k |-> "text", t |-> t]

PyFormat(v, fmt, digits) ==
  IF v.k = "text" THEN Raised("ValueError") ELSE FormatValue(v, fmt, digits)

(* dict.get(key, default) *)
DictGet(d, key, default) == IF key \in DOMAIN d THEN d[key] ELSE default

(* generate_comprehensive_report (reports.py:10-138), as far as it depends *)
(* on fundamental_data: the table of lines 48-55 is built when the dict is  *)
(* not empty.                                                              *)
generate_comprehensive_report(fundamental_data) ==
  IF DOMAIN fundamental_data = {}
  THEN Returned("cosmic_report.pdf")
  ELSE LET eps == PyFormat(DictGet(fundamental_data, "eps", Num(R(0))), "f", 2)
           dividend_yield ==
             PyFormat(DictGet(fundamental_data, "dividend_yield", Num(R(0))), "%", 2)
       IN  IF IsRaised(eps) THEN eps
           ELSE IF IsRaised(dividend_yield) THEN dividend_yield
           ELSE Returned("cosmic_report.pdf")

(* the sample data of the Reports page, reports.py:151-156 (the strings     *)
(* without their rupee signs)                                               *)
SampleFundamentalData ==
  [market_cap |-> Str("15,00,000 Cr"), pe_ratio |-> Str("25.5"),
   eps |-> Str("150"), dividend_yield |-> Str("0.5%")]

(* display() of reports.py with the report type "PDF Report", the one the  *)
(* selectbox starts with (lines 140-181)                                   *)
RenderReports(s, click) ==
  LET button == {Widget("generate_pdf", "")}
      filename == generate_comprehensive_report(SampleFundamentalData)
  IN  IF click = Widget("generate_pdf", "")
      THEN IF IsRaised(filename)
           THEN Pass("Reports", s, filename.exc, {}, "", "none", {}, FALSE)
           ELSE Pass("Reports", s, "ok", button \cup {Widget("download", filename.v)}, "",
                     "none", {"Reports"}, FALSE)
      ELSE Pass("Reports", s, "ok", button, "", "none", {}, FALSE)

(* main(): the sidebar, then the page of the selected module *)
Script(s, click, query, priced, fetched) ==
  LET s1 == Sidebar(s, click)
      selected_module == IF Has(s1, "selected_module") THEN s1.selected_module ELSE "Home"
      page == CASE selected_module = "Search" -> RenderSearch(s1, click, query)
                [] selected_module = "Favorites" -> RenderFavorites(s1, click, priced)
                [] selected_module = "Reports" -> RenderReports(s1, click)
                [] selected_module \in AnalysisPages ->
                     RenderAnalysis(selected_module, s1, click, fetched)
                [] OTHER -> Pass(selected_module, s1, "ok", {}, "", "none", {}, FALSE)
  IN  [page EXCEPT !.widgets = @ \cup NavWidgets]

(* st.rerun() ends the pass and runs the script again with no widget       *)
(* clicked; a widget that is not rendered loses its content.               *)
FullRun(s, click, query, priced, fetched) ==
  LET first == Script(s, click, query, priced, fetched)
  IN  IF first.rerun
      THEN Script(first.session, NoClick,
                  IF first.session.selected_module = "Search" THEN first.query ELSE "",
                  priced, fetched)
      ELSE first

(* what is kept of a run *)
RunOf(r, click) ==
  [page |-> r.page, outcome |-> r.outcome, widgets |-> r.widgets, query |-> r.query,
   analysis |-> r.analysis, calls |-> r.calls, click |-> click]

(* the first run of a fresh session *)
FirstRun == RunOf(FullRun(FreshSession, NoClick, "", {}, FALSE), NoClick)

----------------------------------------------------------------------------
(* State machine: one function call at a time *)

Idle == "idle"

Init ==
  /\ op = Idle
  /\ arg = [none |-> TRUE]
  /\ ret = [none |-> TRUE]
  /\ rng \in 0..(RngMod - 1)
  /\ session = FreshSession
  /\ run = FirstRun
  /\ threads = <<>>

CallCalculateRsi ==
  /\ op = Idle
  /\ \E close \in PriceSeries, period \in 1..MaxPeriod :
       /\ op' = "calculate_rsi"
       /\ arg' = [close |-> close, period |-> period]
       /\ ret' = [rsi |-> calculate_rsi(close, period)]
  /\ UNCHANGED <<rng, web>>

CallCalculateMacd ==
  /\ op = Idle
  /\ \E close \in MacdSeries :
       /\ op' = "calculate_macd"
       /\ arg' = [close |-> close]
       /\ ret' = calculate_macd(close)
  /\ UNCHANGED <<rng, web>>

CallGenerateRecommendation ==
  /\ op = Idle
  /\ \E rsi \in RsiInputs, m \in MacdInputs, s \in MacdInputs :
       /\ op' = "generate_recommendation"
       /\ arg' = [rsi |-> rsi, macd |-> m, signal |-> s]
       /\ ret' = [label |-> generate_recommendation(rsi, m, s)]
  /\ UNCHANGED <<rng, web>>

CallDcfValuation ==
  /\ op = Idle
  /\ \E fcf \in CashFlowInputs, r \in Rates, g \in Rates :
       /\ op' = "dcf_valuation"
       /\ arg' = [free_cash_flow |-> fcf, discount_rate |-> r, growth_rate |-> g]
       /\ ret' = dcf_valuation(fcf, r, g)
  /\ UNCHANGED <<rng, web>>

CallDdmValuation ==
  /\ op = Idle
  /\ \E d \in Amounts, r \in Rates, g \in Rates :
       /\ op' = "ddm_valuation"
       /\ arg' = [dividend |-> d, discount_rate |-> r, growth_rate |-> g]
       /\ ret' = ddm_valuation(d, r, g)
  /\ UNCHANGED <<rng, web>>

CallCalculateGreeks ==
  /\ op = Idle
  /\ \E s \in OptionInputs, k \in OptionInputs, t \in OptionInputs,
        v \in OptionInputs, r \in OptionInputs :
       /\ op' = "calculate_greeks"
       /\ arg' = [stock_price |-> s, strike |-> k, time_to_expiry |-> t,
                  volatility |-> v, risk_free_rate |-> r]
       /\ ret' \in calculate_greeks(s, k, t, v, r)
  /\ UNCHANGED <<rng, web>>

CallHistoricalVar ==
  /\ op = Idle
  /\ \E rs \in ReturnSeries, c \in ConfidenceLevels, h \in 1..MaxHorizon :
       /\ op' = "calculate_historical_var"
       /\ arg' = [returns |-> rs, confidence_level |-> c, time_horizon |-> h]
       /\ ret' = calculate_historical_var(rs, c, h)
  /\ UNCHANGED <<rng, web>>

CallCvar ==
  /\ op = Idle
  /\ \E rs \in ReturnSeries, c \in ConfidenceLevels, h \in 1..MaxHorizon :
       /\ op' = "calculate_cvar"
       /\ arg' = [returns |-> rs, confidence_level |-> c, time_horizon |-> h]
       /\ ret' = calculate_cvar(rs, c, h)
  /\ UNCHANGED <<rng, web>>

(* The simulation may be run again right after a run, as the risk page     *)
(* does (display, then create_var_comparison_chart).                       *)
CallMonteCarloVar ==
  /\ op \in {Idle, "calculate_monte_carlo_var"}
  /\ \E rs \in SimSeries, c \in ConfidenceLevels, h \in 1..2, n \in 1..MaxSims :
       /\ op' = "calculate_monte_carlo_var"
       /\ arg' = [returns |-> rs, confidence_level |-> c, time_horizon |-> h,
                  simulations |-> n]
       /\ ret' = calculate_monte_carlo_var(rs, c, h, n, rng)
       /\ rng' = RngAfter(rng, n * h)
  /\ UNCHANGED web

CallPortfolioMetrics ==
  /\ op = Idle
  /\ \E m \in Matrices :
       \E w \in [1..Len(m) -> WeightValues] :
         /\ op' = "calculate_portfolio_metrics"
         /\ arg' = [returns |-> m, weights |-> w]
         /\ ret' = calculate_portfolio_metrics(m, w)
  /\ UNCHANGED <<rng, web>>

AnalyzePortfolio ==
  /\ op = Idle
  /\ \E companies \in SeqsUpTo(Symbols, MaxCompanies), status \in [Symbols -> DownloadStatus] :
       \E sliders \in [1..Len(companies) -> SliderValues] :
         /\ op' = "display_portfolio"
         /\ arg' = [companies |-> companies, sliders |-> sliders, status |-> status]
         /\ ret' = display_portfolio(companies, sliders, status)
  /\ UNCHANGED <<rng, web>>

CallStressTesting ==
  /\ op = Idle
  /\ \E rs \in ReturnSeries, sc \in ScenarioInputs :
       /\ op' = "perform_stress_testing"
       /\ arg' = [returns |-> rs, stress_scenarios |-> sc]
       /\ ret' = perform_stress_testing(rs, sc)
  /\ UNCHANGED <<rng, web>>

CallRiskFactors ==
  /\ op = Idle
  /\ \E rs \in ReturnSeries :
       /\ op' = "calculate_risk_factors"
       /\ arg' = [returns |-> rs]
       /\ ret' = calculate_risk_factors(rs)
  /\ UNCHANGED <<rng, web>>

CallRetryApiCall ==
  /\ op = Idle
  /\ \E max_retries \in 0..MaxRetries, delay \in Delays :
       \E outcomes \in [1..max_retries -> FuncOutcomes] :
         /\ op' = "retry_api_call"
         /\ arg' = [outcomes |-> outcomes, max_retries |-> max_retries, delay |-> delay]
         /\ ret' = retry_api_call(outcomes, max_retries, delay)
  /\ UNCHANGED <<rng, web>>

SearchPage ==
  /\ op = Idle
  /\ \E downloads \in [1..DefaultMaxRetries -> DownloadOutcomes] :
       /\ op' = "search_page"
       /\ arg' = [downloads |-> downloads]
       /\ ret' = search_page(downloads)
  /\ UNCHANGED <<rng, web>>

CallFetchHistoricalData ==
  /\ op = Idle
  /\ \E download \in PriceDownloads, rate_download \in RateDownloads :
       /\ op' = "fetch_historical_data"
       /\ arg' = [download |-> download, rate_download |-> rate_download]
       /\ ret' = fetch_historical_data(download, rate_download)
  /\ UNCHANGED <<rng, web>>

CallFetchNewsFinancial ==
  /\ op = Idle
  /\ \E newsapi \in NewsApiResults, yahoo \in YahooResults, google \in GoogleResults :
       /\ op' = "fetch_news_financial"
       /\ arg' = [newsapi |-> newsapi, yahoo |-> yahoo, google |-> google]
       /\ ret' = fetch_news_financial(newsapi, yahoo, google)
  /\ UNCHANGED <<rng, web>>

CallIndividualMetrics ==
  /\ op = Idle
  /\ \E returns \in Frames :
       /\ op' = "calculate_individual_metrics"
       /\ arg' = [returns |-> returns]
       /\ ret' = [metrics |-> calculate_individual_metrics(returns)]
  /\ UNCHANGED <<rng, web>>

Return ==
  /\ op # Idle
  /\ op' = Idle
  /\ arg' = [none |-> TRUE]
  /\ ret' = [none |-> TRUE]
  /\ UNCHANGED <<rng, web>>

(* main.py:59-85, lazy_load_data: the body of load_in_background runs in   *)
(* a thread of its own (background_task, 34-41).  session.lazy_loaded_data *)
(* is the dict object the attribute refers to: id tells the objects apart, *)
(* entries is its content.  A thread is [key, pc, held]: held is the       *)
(* object its subscript assignment has loaded.                             *)
DataTypes == {"historical", "financial"}

LazyKeys == {<<symbol, data_type>> : symbol \in Symbols, data_type \in DataTypes}

Loaded(key) == [key |-> key, status |-> "loaded"]

SetThread(i, pc, held) == [threads EXCEPT ![i] = [key |-> @.key, pc |-> pc, held |-> held]]

(* lazy_load_data(symbol, data_type): thread.start() *)
LazyLoadData ==
  /\ Len(threads) < MaxThreads
  /\ \E key \in LazyKeys : threads' = Append(threads, [key |-> key, pc |-> "fetch", held |-> 0])
  /\ UNCHANGED <<calc, session, run>>

(* lines 63-70: the fetch; an exception goes to handle_api_error (122-134) *)
ThreadFetch ==
  \E i \in DOMAIN threads, ok \in BOOLEAN :
    /\ threads[i].pc = "fetch"
    /\ IF ok
       THEN /\ threads' = SetThread(i, "check", 0)
            /\ session' = session
       ELSE /\ threads' = SetThread(i, "failed", 0)
            /\ session' = [session EXCEPT !.keys = @ \cup {"error_log"},
                                          !.error_log = Append(@, threads[i].key)]
    /\ UNCHANGED <<calc, run>>

(* line 73: 'lazy_loaded_data' not in st.session_state *)
ThreadCheck ==
  \E i \in DOMAIN threads :
    /\ threads[i].pc = "check"
    /\ threads' = SetThread(i, IF Has(session, "lazy_loaded_data") THEN "load" ELSE "init", 0)
    /\ UNCHANGED <<calc, session, run>>

(* line 74: st.session_state.lazy_loaded_data = {} *)
ThreadInit ==
  \E i \in DOMAIN threads :
    /\ threads[i].pc = "init"
    /\ session' = [session EXCEPT !.keys = @ \cup {"lazy_loaded_data"},
                                  !.lazy_loaded_data = [id |-> @.id + 1, entries |-> {}]]
    /\ threads' = SetThread(i, "load", 0)
    /\ UNCHANGED <<calc, run>>

(* line 75, left side: the attribute is read *)
ThreadLoad ==
  \E i \in DOMAIN threads :
    /\ threads[i].pc = "load"
    /\ threads' = SetThread(i, "store", session.lazy_loaded_data.id)
    /\ UNCHANGED <<calc, session, run>>

(* lines 75-79: the entry is stored in the object that was read *)
ThreadStore ==
  \E i \in DOMAIN threads :
    /\ threads[i].pc = "store"
    /\ session' = IF threads[i].held = session.lazy_loaded_data.id
                  THEN [session EXCEPT !.lazy_loaded_data.entries =
                          {e \in @ : e.key # threads[i].key} \cup {Loaded(threads[i].key)}]
                  ELSE session
    /\ threads' = SetThread(i, "done", threads[i].held)
    /\ UNCHANGED <<calc, run>>

(* main.py:87-95, get_lazy_loaded_data, for data still fresh *)
get_lazy_loaded_data(s, key) ==
  IF Has(s, "lazy_loaded_data") /\ \E e \in s.lazy_loaded_data.entries : e.key = key
  THEN "data"
  ELSE None

(* The user interacts with a widget of the page shown and the script runs  *)
(* again.                                                                  *)
Interact ==
  /\ \E click \in run.widgets, priced \in SUBSET Symbols, fetched \in BOOLEAN :
       \E r \in {FullRun(session, click, run.query, priced, fetched)} :
         /\ session' = r.session
         /\ run' = RunOf(r, click)
  /\ UNCHANGED <<calc, threads>>

Next ==
  \/ CallCalculateRsi
  \/ CallCalculateMacd
  \/ CallGenerateRecommendation
  \/ CallDcfValuation
  \/ CallDdmValuation
  \/ CallCalculateGreeks
  \/ CallHistoricalVar
  \/ CallCvar
  \/ CallMonteCarloVar
  \/ CallStressTesting
  \/ CallRiskFactors
  \/ CallPortfolioMetrics
  \/ AnalyzePortfolio
  \/ CallRetryApiCall
  \/ SearchPage
  \/ CallFetchHistoricalData
  \/ CallFetchNewsFinancial
  \/ CallIndividualMetrics
  \/ Return

Spec == Init /\ [][Next]_vars

(* The Streamlit session of main.py *)
AppInit ==
  /\ op = Idle
  /\ arg = [none |-> TRUE]
  /\ ret = [none |-> TRUE]
  /\ rng = 0
  /\ session = FreshSession
  /\ run = FirstRun
  /\ threads = <<>>

AppNext == Interact

App == AppInit /\ [][AppNext]_vars

(* The background loads of main.py *)
LazyNext ==
  \/ LazyLoadData
  \/ ThreadFetch
  \/ ThreadCheck
  \/ ThreadInit
  \/ ThreadLoad
  \/ ThreadStore

Lazy == AppInit /\ [][LazyNext]_vars

----------------------------------------------------------------------------
(* C1: generate_recommendation returns BUY exactly when the latest RSI is  *)
(* below 30 and the latest MACD is above the latest signal, SELL exactly   *)
(* when the RSI is above 70 and the MACD is below the signal, and HOLD in  *)
(* every other case (ties, partial conditions, an undefined RSI); the      *)
(* result is always one of the three labels.                               *)

Below(v, n) == v.k = "num" /\ v.q[1] < n * v.q[2]
Above(v, n) == v.k = "num" /\ v.q[1] > n * v.q[2]
NumLess(a, b) == a.k = "num" /\ b.k = "num" /\ a.q[1] * b.q[2] < b.q[1] * a.q[2]

C1_Recommendation ==
  op = "generate_recommendation" =>
    LET buy == Below(arg.rsi, 30) /\ NumLess(arg.signal, arg.macd)
        sell == Above(arg.rsi, 70) /\ NumLess(arg.macd, arg.signal)
    IN  /\ ret.label \in {"BUY", "SELL", "HOLD"}
        /\ (ret.label = "BUY") <=> buy
        /\ (ret.label = "SELL") <=> sell
        /\ (ret.label = "HOLD") <=> (~buy /\ ~sell)

(* a tie (RSI exactly 30 with MACD above signal) resolved to HOLD *)
C1_Witness ==
  /\ op = "generate_recommendation"
  /\ arg.rsi = Num(R(30))
  /\ NumLess(arg.signal, arg.macd)
  /\ ret.label = "HOLD"

----------------------------------------------------------------------------
(* C10: in calculate_rsi, at every position where the rolling window is    *)
(* full and the average loss over the window is 0, the RSI is exactly 100  *)
(* and not NaN, also when the average gain is 0 as well (flat prices).     *)

WindowFull(i, period) == i >= period

Window(i, period) == (i - period + 1)..i

(* no price fall inside the window: the average loss is 0 *)
NoLoss(close, i, period) ==
  \A j \in Window(i, period) : j = 1 \/ close[j] >= close[j - 1]

(* some price rise inside the window: the average gain is positive *)
SomeGain(close, i, period) ==
  \E j \in Window(i, period) : j > 1 /\ close[j] > close[j - 1]

----------------------------------------------------------------------------
(* C2: dcf_valuation and ddm_valuation (with a positive dividend) raise or  *)
(* otherwise signal an error whenever discount_rate = growth_rate and       *)
(* whenever discount_rate < growth_rate; they never return an ordinary      *)
(* number there.                                                            *)

C2_RaisesUnlessDiscountAboveGrowth ==
  /\ op = "dcf_valuation" /\ RLe(arg.discount_rate, arg.growth_rate)
       => IsRaised(ret)
  /\ (op = "ddm_valuation" /\ RLe(arg.discount_rate, arg.growth_rate)
        /\ RSign(arg.dividend) > 0)
       => IsRaised(ret)

----------------------------------------------------------------------------
(* C3: calculate_greeks fails closed: for every input with volatility <= 0  *)
(* or time_to_expiry <= 0 it returns the zero-filled bundle.                *)

C3_FailsClosed ==
  (op = "calculate_greeks" /\ (arg.volatility <= 0 \/ arg.time_to_expiry <= 0))
    => ret = ZeroGreeks

----------------------------------------------------------------------------
(* C4: in calculate_cvar, when no element of returns is at or below the     *)
(* threshold -VaR, the function returns the VaR value itself, with the same *)
(* sign and magnitude.                                                      *)

ArgVar == calculate_historical_var(arg.returns, arg.confidence_level, arg.time_horizon)

NoTailLoss ==
  \A i \in 1..Len(arg.returns) : ~VLe(Num(arg.returns[i]), VNeg(ArgVar))

C4_FallbackReturnsVar ==
  (op = "calculate_cvar" /\ NoTailLoss) => ret = ArgVar

----------------------------------------------------------------------------
(* C5: for every non-empty, non-constant returns sample, every confidence   *)
(* level in (0,1) and every time horizon >= 1, calculate_cvar is at least   *)
(* calculate_historical_var.                                                *)

NonConstant(a) == \E i, j \in 1..Len(a) : a[i] # a[j]

C5_CvarAtLeastVar ==
  (op = "calculate_cvar" /\ NonConstant(arg.returns)) => VGe(ret, ArgVar)

----------------------------------------------------------------------------
(* C9: calculate_monte_carlo_var is reproducible: two calls with identical  *)
(* arguments return identical values.                                       *)

C9_Reproducible ==
  [][(op = "calculate_monte_carlo_var" /\ op' = "calculate_monte_carlo_var"
        /\ arg' = arg) => ret' = ret]_vars

----------------------------------------------------------------------------
(* C6: whenever the portfolio page invokes calculate_portfolio_metrics, the *)
(* weight vector it passes has exactly one non-negative entry per column of *)
(* the returns matrix and sums to 1, for every list of entered symbols and  *)
(* every combination of slider weights.                                     *)

C6_WeightsSumToOne ==
  (op = "display_portfolio" /\ ret.k = "analyzed") =>
    /\ Len(ret.weights) = Len(ret.columns)
    /\ \A i \in 1..Len(ret.weights) : RSign(ret.weights[i]) >= 0
    /\ RSum(ret.weights) = R(1)

----------------------------------------------------------------------------
(* C7: calculate_portfolio_metrics guards the Sharpe ratio: when the        *)
(* computed portfolio volatility is 0 it signals explicitly that the Sharpe *)
(* ratio is undefined and does not perform the division.                    *)

C7_SharpeGuarded ==
  (op = "calculate_portfolio_metrics" /\ ret.k = "metrics"
     /\ ret.volatility = Num(R(0)))
    => ret.sharpe_ratio.k \notin {"inf", "ninf", "nan", "ratio", "num"}

----------------------------------------------------------------------------
(* C8: every metric value in the bundles returned by the analytics          *)
(* functions, in particular every value returned by calculate_risk_factors  *)
(* and every 'Shock' and 'VaR 95%' value returned by perform_stress_testing,*)
(* is a number in fractional form and never a formatted string.             *)

IsText(v) == v.k = "str"

C8_MetricsAreNumbers ==
  /\ op = "calculate_risk_factors" => \A f \in DOMAIN ret : ~IsText(ret[f])
  /\ op = "perform_stress_testing" =>
       \A l \in DOMAIN ret : ~IsText(ret[l].Shock) /\ ~IsText(ret[l].VaR95)

----------------------------------------------------------------------------
(* C11: for every price series of length n and every period p <= n,         *)
(* calculate_rsi returns a series of length n whose first p positions       *)
(* (indices 0..p-1) are NaN, the rolling averages being defined from index  *)
(* p onward.                                                                *)

C11_WarmUpOfPeriodPositions ==
  (op = "calculate_rsi" /\ arg.period <= Len(arg.close)) =>
    /\ Len(ret.rsi) = Len(arg.close)
    /\ \A i \in 1..arg.period : ret.rsi[i] = NaN
    /\ \A i \in (arg.period + 1)..Len(arg.close) :
         /\ RollingMean([j \in 1..Len(arg.close) |-> GainAt(arg.close, j)],
                        i, arg.period).k = "num"
         /\ RollingMean([j \in 1..Len(arg.close) |-> LossAt(arg.close, j)],
                        i, arg.period).k = "num"

----------------------------------------------------------------------------
(* C12: for every perfectly flat Close series calculate_macd returns a MACD *)
(* line and a signal line that are both 0 at every position, with no NaN    *)
(* warm-up entries; and for any series the MACD and signal values at the    *)
(* first position are 0, both averages being seeded with the first          *)
(* observation.                                                             *)

Flat(close) == \A i \in 1..Len(close) : close[i] = close[1]

C12_MacdFlatAndSeed ==
  op = "calculate_macd" =>
    /\ Len(ret.macd) = Len(arg.close) /\ Len(ret.signal) = Len(arg.close)
    /\ \A i \in 1..Len(arg.close) : ret.macd[i].k = "num" /\ ret.signal[i].k = "num"
    /\ ret.macd[1] = Num(R(0)) /\ ret.signal[1] = Num(R(0))
    /\ Flat(arg.close) =>
         \A i \in 1..Len(arg.close) :
           ret.macd[i] = Num(R(0)) /\ ret.signal[i] = Num(R(0))

(* a flat series of the full length, all zeros beyond the seed *)
C12_Witness ==
  /\ op = "calculate_macd"
  /\ Len(arg.close) = MaxMacdLen
  /\ Flat(arg.close)
  /\ \A i \in 1..MaxMacdLen : ret.macd[i] = Num(R(0)) /\ ret.signal[i] = Num(R(0))

----------------------------------------------------------------------------
(* C13: for every scalar cash flow x and every discount and growth rate,    *)
(* dcf_valuation(x, r, g) equals dcf_valuation([x, x, x, x, x], r, g): a    *)
(* scalar is treated as five equal explicit-horizon cash flows.             *)

C13_ScalarIsFiveFlows ==
  (op = "dcf_valuation" /\ arg.free_cash_flow.t = "scalar") =>
    LET x == arg.free_cash_flow.x
    IN  ret = dcf_valuation(List(<<x, x, x, x, x>>), arg.discount_rate, arg.growth_rate)

(* a positive scalar valued with discount_rate above growth_rate *)
C13_Witness ==
  /\ op = "dcf_valuation"
  /\ arg.free_cash_flow = Scalar(R(2))
  /\ arg.discount_rate = Q(1, 2) /\ arg.growth_rate = Q(1, 4)
  /\ ret.k = "num" /\ RSign(ret.q) > 0

----------------------------------------------------------------------------
(* C14: for discount_rate > growth_rate and cash flows fcf_1..fcf_n,        *)
(* dcf_valuation returns the sum over t = 1..n of fcf_t / (1 + r)^t plus    *)
(* the terminal value fcf_n*(1+g)/(r-g) divided by (1 + r)^n; every         *)
(* explicit-horizon cash flow, including the first, is discounted.          *)

PresentValue(fcf, r) ==
  RSum([t \in 1..Len(fcf) |-> RDiv(fcf[t], RPow(RAdd(R(1), r), t))])

GordonTerminal(fcf, r, g) ==
  RDiv(RMul(fcf[Len(fcf)], RAdd(R(1), g)), RSub(r, g))

C14_EveryFlowDiscounted ==
  (op = "dcf_valuation" /\ RLt(arg.growth_rate, arg.discount_rate)
     /\ AsCashFlows(arg.free_cash_flow) # <<>>) =>
    LET fcf == AsCashFlows(arg.free_cash_flow)
        r == arg.discount_rate
        g == arg.growth_rate
    IN  ret = Num(RAdd(PresentValue(fcf, r),
                       RDiv(GordonTerminal(fcf, r, g), RPow(RAdd(R(1), r), Len(fcf)))))

----------------------------------------------------------------------------
(* C15: ddm_valuation returns 0 for every dividend <= 0 regardless of the   *)
(* rates, and for dividend > 0 with discount_rate > growth_rate returns     *)
(* dividend*(1+growth_rate)/(discount_rate-growth_rate), which is strictly  *)
(* positive.                                                                *)

GordonValue(dividend, r, g) == RDiv(RMul(dividend, RAdd(R(1), g)), RSub(r, g))

C15_Original ==
  op = "ddm_valuation" =>
    /\ RSign(arg.dividend) <= 0 => ret = Num(R(0))
    /\ (RSign(arg.dividend) > 0 /\ RLt(arg.growth_rate, arg.discount_rate)) =>
         /\ ret = Num(GordonValue(arg.dividend, arg.discount_rate, arg.growth_rate))
         /\ RSign(ret.q) > 0

(* C15 as amended: the value for a positive dividend and discount_rate >    *)
(* growth_rate has the sign of 1 + growth_rate; it is strictly positive     *)
(* exactly when growth_rate > -1.                                           *)
C15_Amended ==
  op = "ddm_valuation" =>
    /\ RSign(arg.dividend) <= 0 => ret = Num(R(0))
    /\ (RSign(arg.dividend) > 0 /\ RLt(arg.growth_rate, arg.discount_rate)) =>
         /\ ret = Num(GordonValue(arg.dividend, arg.discount_rate, arg.growth_rate))
         /\ RSign(ret.q) = RSign(RAdd(R(1), arg.growth_rate))
         /\ RSign(ret.q) > 0 <=> RLt(R(-1), arg.growth_rate)

(* a positive dividend that grows, valued above zero *)
C15_Witness ==
  /\ op = "ddm_valuation"
  /\ arg.dividend = R(2)
  /\ arg.discount_rate = Q(1, 2) /\ arg.growth_rate = Q(1, 4)
  /\ ret = Num(R(10))

----------------------------------------------------------------------------
(* C16: perform_stress_testing returns exactly one result per label of the  *)
(* scenario mapping it is given (the four built-in scenarios only when the  *)
(* argument is None), and each result's VaR is the 95%, one-period          *)
(* historical VaR of the series obtained by adding that scenario's shock to *)
(* every return, which equals the unstressed historical VaR minus the       *)
(* shock.  The result carries the VaR in its .2% rendering.                 *)

GivenScenarios ==
  IF arg.stress_scenarios = NoScenarios THEN DefaultScenarios ELSE arg.stress_scenarios.m

Shifted(returns, shock) == [i \in 1..Len(returns) |-> RAdd(returns[i], shock)]

C16_StressPerScenario ==
  op = "perform_stress_testing" =>
    /\ DOMAIN ret = DOMAIN GivenScenarios
    /\ \A l \in DOMAIN ret :
         LET shock == GivenScenarios[l]
             stressed == calculate_historical_var(Shifted(arg.returns, shock),
                                                  Q(95, 100), 1)
             unstressed == calculate_historical_var(arg.returns, Q(95, 100), 1)
         IN  /\ ret[l].VaR95 = FormatValue(stressed, "%", 2)
             /\ stressed.k = "num" /\ unstressed.k = "num"
             /\ stressed.q = RSub(unstressed.q, shock)

(* two scenarios given on a sample of several returns: two results, the     *)
(* crash one with the larger VaR                                            *)
C16_Witness ==
  /\ op = "perform_stress_testing"
  /\ Len(arg.returns) >= 2
  /\ arg.stress_scenarios # NoScenarios
  /\ DOMAIN ret = {"Crash", "Rally"}
  /\ ret["Crash"].VaR95.units > ret["Rally"].VaR95.units

----------------------------------------------------------------------------
(* C17: the 'Maximum Drawdown' entry produced by calculate_risk_factors is  *)
(* the minimum single-period return of the input series (in its .2%         *)
(* rendering), not a running peak-to-trough drawdown: it depends only on    *)
(* the smallest element of returns and is unchanged by any reordering of    *)
(* the series.                                                              *)

Smallest(a) == Sorted(a)[1]

Reorderings(a) ==
  {[i \in 1..Len(a) |-> a[p[i]]] :
     p \in {f \in [1..Len(a) -> 1..Len(a)] : \A i, j \in 1..Len(a) : f[i] = f[j] => i = j}}

C17_DrawdownIsMinimum ==
  op = "calculate_risk_factors" =>
    /\ ret.MaximumDrawdown = Format(Smallest(arg.returns), "%", 2)
    /\ \A b \in Reorderings(arg.returns) : MaximumDrawdown(b) = ret.MaximumDrawdown

(* two falls in a row: the entry shows the single fall of 2%, not the       *)
(* cumulated fall of 4%                                                     *)
C17_Witness ==
  /\ op = "calculate_risk_factors"
  /\ arg.returns = <<Q(-2, 100), Q(-2, 100)>>
  /\ ret.MaximumDrawdown = Text("%", 2, TRUE, 200)

----------------------------------------------------------------------------
(* C18: for every returns sample, confidence level and time horizon h >= 1, *)
(* calculate_historical_var(returns, c, h) equals                           *)
(* calculate_historical_var(returns, c, 1) multiplied by the square root of *)
(* h: the percentile is taken on the unscaled returns and the scaling is    *)
(* applied afterwards (h = 4 gives exactly twice the one-period VaR).       *)

OnePeriodVar == calculate_historical_var(arg.returns, arg.confidence_level, 1)

(* v * sqrt(h) for a number v; a zero keeps its sign *)
TimesSqrt(v, h) == IF IsNegZero(v) THEN v ELSE MulSqrt(v.q, h)

C18_SqrtOfTimeScaling ==
  op = "calculate_historical_var" =>
    /\ ret = TimesSqrt(OnePeriodVar, arg.time_horizon)
    /\ arg.time_horizon = 4 => ret.k = "num" /\ ret.q = RMul(R(2), OnePeriodVar.q)

(* a four-period VaR of a spread sample: twice the one-period loss *)
C18_Witness ==
  /\ op = "calculate_historical_var"
  /\ arg.time_horizon = 4
  /\ arg.returns = <<Q(-2, 100), Q(1, 100)>>
  /\ arg.confidence_level = Q(19, 20)
  /\ RSign(ret.q) > 0
  /\ ret.q = RMul(R(2), OnePeriodVar.q)

----------------------------------------------------------------------------
(* C19: for max_retries >= 1, retry_api_call calls func at most max_retries *)
(* times, returns the result of the first call that does not raise without  *)
(* calling func again, sleeps delay*2^k after the k-th (0-based) failed     *)
(* attempt only when another attempt follows, and when all max_retries      *)
(* attempts raise it re-raises the exception of the last attempt (it does   *)
(* not return None).                                                        *)

Succeeds(outcomes) == {i \in 1..Len(outcomes) : ~IsRaised(outcomes[i])}

FirstSuccess(outcomes) ==
  CHOOSE i \in Succeeds(outcomes) : \A j \in Succeeds(outcomes) : i <= j

C19_RetryContract ==
  (op = "retry_api_call" /\ arg.max_retries >= 1) =>
    /\ ret.calls \in 1..arg.max_retries
    /\ IF Succeeds(arg.outcomes) # {}
       THEN /\ ret.calls = FirstSuccess(arg.outcomes)
            /\ ret.result = arg.outcomes[FirstSuccess(arg.outcomes)]
       ELSE /\ ret.calls = arg.max_retries
            /\ ret.result = arg.outcomes[arg.max_retries]
            /\ IsRaised(ret.result)
    /\ ret.sleeps = [k \in 1..(ret.calls - 1) |-> arg.delay * (2 ^ (k - 1))]

(* three attempts raise: two sleeps of 1 and 2 seconds, then the third      *)
(* exception is raised to the caller                                        *)
C19_Witness ==
  /\ op = "retry_api_call"
  /\ arg.max_retries = 3 /\ arg.delay = 1
  /\ arg.outcomes = <<Raised("E1"), Raised("E1"), Raised("E2")>>
  /\ ret.calls = 3
  /\ ret.sleeps = <<1, 2>>
  /\ ret.result = Raised("E2")

----------------------------------------------------------------------------
(* C20: on the Search page, when the underlying market-data download for    *)
(* the searched symbol fails, the fetch wrapped in retry_api_call is        *)
(* attempted again, up to 3 attempts in total, before the page reports that *)
(* data could not be fetched.                                               *)

Fails(download) == download = "error"

C20_SearchRetriesDownload ==
  op = "search_page" =>
    /\ Fails(arg.downloads[1]) => ret.attempts >= 2
    /\ (ret.shown = "unable_to_fetch" /\ \E i \in 1..ret.attempts : Fails(arg.downloads[i]))
         => ret.attempts = DefaultMaxRetries

----------------------------------------------------------------------------
(* C21: st.session_state.favorites is never read before it has been         *)
(* initialised: under every order of navigation from a fresh session,       *)
(* including opening the Favorites page before the Search page has ever     *)
(* been rendered, rendering the Favorites page finds an existing favorites  *)
(* set and does not fail.                                                   *)

C21_FavoritesInitialised ==
  run.page = "Favorites" => (Has(session, "favorites") /\ run.outcome = "ok")

----------------------------------------------------------------------------
(* C22: when two lazy_load_data background tasks for different             *)
(* (symbol, data_type) keys run concurrently in the same session and both   *)
(* complete successfully, st.session_state.lazy_loaded_data contains an     *)
(* entry with status 'loaded' for both keys, under every interleaving of    *)
(* the two threads.                                                         *)

C22_BothLoadsKept ==
  \A i, j \in DOMAIN threads :
    (/\ i # j
     /\ threads[i].key # threads[j].key
     /\ threads[i].pc = "done"
     /\ threads[j].pc = "done")
    => /\ Loaded(threads[i].key) \in session.lazy_loaded_data.entries
       /\ Loaded(threads[j].key) \in session.lazy_loaded_data.entries
       /\ get_lazy_loaded_data(session, threads[i].key) # None

----------------------------------------------------------------------------
(* C23: the per-holding weights written to the portfolio PDF report are the *)
(* weights that were used to compute the reported portfolio metrics,        *)
(* row-aligned with the same companies, also when one or more of the        *)
(* entered companies were dropped for missing data and the remaining        *)
(* weights were renormalized.                                               *)

(* the holdings the metrics were computed from, as the report prints them *)
AnalyzedHoldings(r) ==
  [j \in 1..Len(r.columns) |->
     [company |-> r.columns[j], weight |-> Format(r.weights[j], "%", 1)]]

C23_ReportWeightsAreAnalyzedWeights ==
  (op = "display_portfolio" /\ ~IsRaised(ret) /\ ret.k = "analyzed")
  => PortfolioReport(arg.companies, arg.sliders, arg.status) = AnalyzedHoldings(ret)

----------------------------------------------------------------------------
(* C24: after the user clicks 'Analyze Risk' and the analysis results are   *)
(* shown, a subsequent click on 'Generate Risk Analysis Report' causes      *)
(* generate_risk_analysis_report to be called with the results of that      *)
(* analysis; the same holds for the report buttons nested under 'Analyze    *)
(* Portfolio' and the equity 'Analyze' button.                              *)

C24_ReportClickGenerates ==
  run.click.w = "report" => run.click.x \in run.calls

(* what holds instead: no run of the script calls a report generator *)
C24_NoRunGenerates == run.calls \cap AnalysisPages = {}

----------------------------------------------------------------------------
(* C25: on the Reports page, clicking 'Generate PDF Report' calls           *)
(* generate_comprehensive_report with the page's built-in sample data       *)
(* (whose eps and dividend_yield values are strings) and the call completes *)
(* without raising, returning the filename of the PDF that is then offered  *)
(* for download.                                                            *)

C25_SampleReportGenerated ==
  (run.page = "Reports" /\ run.click = Widget("generate_pdf", ""))
  => /\ run.outcome = "ok"
     /\ \E w \in run.widgets : w.w = "download"

----------------------------------------------------------------------------
(* C26: get_usd_inr_rate always returns a number: the latest USDINR close   *)
(* when the download yields rows, and the fallback rate 83.0 otherwise,     *)
(* including when the download succeeds but returns an empty table;         *)
(* fetch_historical_data therefore never multiplies prices by a missing     *)
(* (None) rate.                                                             *)

C26_RateIsAlwaysANumber ==
  (op = "fetch_historical_data" /\ ~IsRaised(arg.download))
  => LET rows == IF IsRaised(arg.rate_download) THEN <<>> ELSE arg.rate_download.v
     IN  /\ ret.rate.k = "num"
         /\ ret.rate = IF rows # <<>> THEN Num(rows[Len(rows)]) ELSE Num(R(FallbackRate))
         /\ ~IsRaised(ret.data)

----------------------------------------------------------------------------
(* C27: for every combination of source results whose articles have string  *)
(* titles, fetch_news_financial returns at most 20 articles, no two of      *)
(* which have the same title after lower-casing and trimming, none with an  *)
(* empty title, in the order of first occurrence in the concatenation       *)
(* NewsAPI, Yahoo Finance, Google News; Yahoo Finance is consulted only if  *)
(* fewer than 10 articles were collected so far, and Google News only if    *)
(* fewer than 10 are collected after that.                                  *)

(* the articles of the sources that were consulted, in the order NewsAPI,  *)
(* Yahoo Finance, Google News                                              *)
Collected ==
  arg.newsapi
  \o (IF "Yahoo Finance" \in ret.consulted THEN arg.yahoo ELSE <<>>)
  \o (IF "Google News" \in ret.consulted THEN arg.google ELSE <<>>)

(* the positions of a list of articles that hold the first occurrence of a *)
(* title                                                                   *)
FirstOccurrences(articles) ==
  LET keys == [k \in 1..Len(articles) |-> TitleKey(articles[k])]
  IN  SelectSeq([k \in 1..Len(articles) |-> k],
                LAMBDA k : keys[k] # <<>> /\ \A h \in 1..(k - 1) : keys[h] # keys[k])

C27_NewsDedupAndLimits ==
  op = "fetch_news_financial"
  => LET out == ret.articles
         all == Collected
         firsts == FirstOccurrences(all)
     IN  /\ Len(out) <= 20
         /\ \A i, j \in 1..Len(out) : i # j => TitleKey(out[i]) # TitleKey(out[j])
         /\ \A i \in 1..Len(out) : Strip(out[i].title) # <<>>
         /\ Len(out) = (IF Len(firsts) > 20 THEN 20 ELSE Len(firsts))
         /\ \A i \in 1..Len(out) : out[i] = all[firsts[i]]
         /\ "Yahoo Finance" \in ret.consulted => Len(arg.newsapi) < 10
         /\ "Google News" \in ret.consulted =>
              Len(arg.newsapi) + (IF "Yahoo Finance" \in ret.consulted
                                  THEN Len(arg.yahoo) ELSE 0) < 10

(* NewsAPI alone gives fewer than 10 articles, Yahoo Finance is consulted   *)
(* and Google News is not; titles recur across the sources and more than 20 *)
(* distinct ones are collected                                              *)
C27_Witness ==
  /\ op = "fetch_news_financial"
  /\ Len(arg.newsapi) = 9
  /\ ret.consulted = {"Yahoo Finance"}
  /\ Len(FirstOccurrences(Collected)) > 20
  /\ Len(FirstOccurrences(Collected)) < Len(Collected)
  /\ Len(ret.articles) = 20

----------------------------------------------------------------------------
(* C28: calculate_individual_metrics returns an entry for exactly those     *)
(* columns of the returns matrix that have at least one non-NaN return;     *)
(* each entry's annualized return is mean*252 and its Sharpe ratio is       *)
(* (annualized return - 0.065) / annualized volatility when the annualized  *)
(* volatility is > 0 and 0 otherwise, so no division by a zero or undefined *)
(* volatility ever occurs.                                                  *)

(* the returns of a column that are numbers *)
Known(column) == {t \in DOMAIN column : column[t] # NaN}

(* a volatility that is a number above zero *)
IsPositive(v) == v.k = "sqrt" /\ RSign(v.of) > 0

C28_IndividualMetrics ==
  op = "calculate_individual_metrics"
  => LET returns == arg.returns
         metrics == ret.metrics
     IN  /\ DOMAIN metrics = {c \in DOMAIN returns : Known(returns[c]) # {}}
         /\ \A c \in DOMAIN metrics :
              LET known == Known(returns[c])
                  total == RSum(DropNa(returns[c]))
                  e == metrics[c]
              IN  /\ e.return = Num(RMul(RDiv(total, R(Cardinality(known))), R(252)))
                  /\ IsPositive(e.volatility) =>
                       e.sharpe_ratio = [k |-> "ratio",
                                         num |-> RSub(e.return.q, Q(65, 1000)),
                                         den |-> e.volatility]
                  /\ ~IsPositive(e.volatility) => e.sharpe_ratio = Num(R(0))
                  /\ e.sharpe_ratio.k \notin {"nan", "inf", "ninf"}

(* a frame with a column of NaN only, a column with a single return (its   *)
(* deviation is NaN) and a column with a positive deviation                 *)
C28_Witness ==
  /\ op = "calculate_individual_metrics"
  /\ \E c \in DOMAIN arg.returns : c \notin DOMAIN ret.metrics
  /\ \E c \in DOMAIN ret.metrics :
       ret.metrics[c].volatility = NaN /\ ret.metrics[c].sharpe_ratio = Num(R(0))
  /\ \E c \in DOMAIN ret.metrics : IsPositive(ret.metrics[c].volatility)

====
